---------------------------- MODULE Spec2Model ----------------------------
(***************************************************************************)
(* Render-attempt lifecycle of generate_mermaid_diagram                    *)
(* (src/server/tools/mermaid_tools.py): input validation, the process-wide *)
(* attempt ledger attempt_tracker, the scratch input file, the renderer    *)
(* run and the structured responses.                                       *)
(*                                                                         *)
(* A call is one worker (a thread of the tool server).  Between two        *)
(* accesses to shared state (the dict attempt_tracker, the file system)    *)
(* another worker may run: every such access is one action, everything     *)
(* local between two accesses belongs to the action that precedes it.      *)
(***************************************************************************)
EXTENDS Integers, Sequences, FiniteSets, TLC

(* ------------------------------ bounds --------------------------------- *)

\* workers that may run generate_mermaid_diagram at the same time
NumProcs == 2

\* MERMAID_MAX_RETRIES / max_retry_attempts (default 5), scaled down
max_attempts == 2

\* max_diagram_size (default 50000 characters), scaled down
max_size == 2

\* calls made by the scripted retry scenario (RetrySpec) beyond max_attempts
ExtraCalls == 2

\* longest renderer message given to parse_mermaid_error, in tokens
MaxTokens == 2

\* characters that follow the opening of a source given to validate_mermaid_syntax
MaxBody == 3

(* -------------------------- program constants -------------------------- *)

DefaultScale == 2
DefaultWidth == 1600
MinWidth == 800
MaxWidth == 3200

default_format == "svg"
default_theme == "default"
default_background == "white"

Procs == 1..NumProcs

(* ------------------------------ helpers -------------------------------- *)

\* dict.get(key, default)
Get(d, k, default) == IF k \in DOMAIN d THEN d[k] ELSE default

\* dict.pop(key, None): the dict without key (unchanged when key is absent)
Pop(d, k) == [x \in DOMAIN d \ {k} |-> d[x]]

\* d[key] = value
Put(d, k, v) == [x \in DOMAIN d \cup {k} |-> IF x = k THEN v ELSE d[x]]

IsSpace(c) == c \in {" ", "\n"}

\* str.strip(): leading and trailing whitespace removed
RECURSIVE LStrip(_)
LStrip(s) == IF s # <<>> /\ IsSpace(Head(s)) THEN LStrip(Tail(s)) ELSE s

RECURSIVE RStrip(_)
RStrip(s) ==
    IF s # <<>> /\ IsSpace(s[Len(s)]) THEN RStrip(SubSeq(s, 1, Len(s) - 1)) ELSE s

Strip(s) == RStrip(LStrip(s))

\* code of a character in the digest below
CharCode(c) == CASE c = " " -> 1 [] c = "\n" -> 2 [] c = "a" -> 3 [] c = "b" -> 4
                 [] OTHER -> 5

\* hashlib.md5(mermaid_code.encode()).hexdigest()[:12]: a deterministic
\* digest of the source text alone.  The model's digest is a positional
\* code of the characters; it is injective on the short texts used here
\* (no collision of the 48-bit prefix is modelled).
RECURSIVE Digest(_)
Digest(s) == IF s = <<>> THEN 0 ELSE (Digest(Tail(s)) * 7 + CharCode(Head(s))) % 65536

code_hash(mermaid_code) == Digest(mermaid_code)

\* input_file = f"/tmp/mermaid_{code_hash}.mmd"
input_file(h) == <<"/tmp/mermaid_", h, ".mmd">>

\* filename = f"diagram_{code_hash}_{timestamp}" when none is given;
\* output_file = os.path.join(output_dir, f"{filename}.{output_format}")
\* (the clock is not modelled: one timestamp)
output_file(a) ==
    <<IF a.filename = "" THEN <<"diagram_", code_hash(a.mermaid_code)>>
                         ELSE <<a.filename>>,
      a.output_format>>

\* str(n) for a natural number: its decimal digits
Digit(d) == CASE d = 0 -> "0" [] d = 1 -> "1" [] d = 2 -> "2" [] d = 3 -> "3" [] d = 4 -> "4"
              [] d = 5 -> "5" [] d = 6 -> "6" [] d = 7 -> "7" [] d = 8 -> "8" [] d = 9 -> "9"

RECURSIVE Str(_)
Str(n) == IF n < 10 THEN <<Digit(n)>> ELSE Str(n \div 10) \o <<Digit(n % 10)>>

\* An argument of the command line is a sequence of text parts, as the
\* f-strings and str() of the code put it together.
Arg(text) == <<text>>

\* the flag that carries the scale, and the one that carries the width
ScaleFlag(a) == <<Arg("-s"), Str(a.scale)>>

WidthFlag(a) == <<Arg("-w"), Str(a.width)>>

\* mutant of Cmd: the format test of line 148 is missing, every command
\* carries the scale and width flags
CmdAlwaysSized(a) ==
    <<Arg("mmdc"), Arg("-i"), input_file(code_hash(a.mermaid_code)), Arg("-o"), output_file(a),
      Arg("-t"), Arg(a.theme), Arg("-b"), Arg(a.background)>>
    \o ScaleFlag(a) \o WidthFlag(a)
    \o <<Arg("-p"), Arg("/tmp/puppeteer-config.json")>>

\* lines 139-151: the mmdc command line of a call with arguments a
Cmd(a) ==
    <<Arg("mmdc"), Arg("-i"), input_file(code_hash(a.mermaid_code)), Arg("-o"), output_file(a),
      Arg("-t"), Arg(a.theme), Arg("-b"), Arg(a.background)>>
    \o (IF a.output_format \in {"png", "pdf"} THEN ScaleFlag(a) \o WidthFlag(a) ELSE <<>>)
    \o <<Arg("-p"), Arg("/tmp/puppeteer-config.json")>>


(* --------------------------- error advisory ---------------------------- *)

\* A renderer message is a sequence of tokens; a keyword is "in" the message
\* when one of its tokens, lower-cased, is the keyword.
Lower(tok) ==
    CASE tok = "Syntax error" -> "syntax error"
      [] tok = "Parse error" -> "parse error"
      [] tok = "Unexpected" -> "unexpected"
      [] tok = "Timeout" -> "timeout"
      [] tok = "SYNTAX ERROR" -> "syntax error"
      [] tok = "Parse Error" -> "parse error"
      [] tok = "UNEXPECTED" -> "unexpected"
      [] tok = "TimeOut" -> "timeout"
      [] OTHER -> tok

Contains(kw, error_msg) == \E i \in 1..Len(error_msg) : Lower(error_msg[i]) = kw

\* mutant of parse_mermaid_error: 'parse error' is tested before 'syntax error'
ParseErrorTestedFirst(error_msg) ==
    IF Contains("parse error", error_msg)
    THEN "Parse error. Verify diagram type declaration (graph TD, sequenceDiagram, etc.) and node connections."
    ELSE IF Contains("syntax error", error_msg)
    THEN "Syntax error detected. Check for: missing semicolons, incorrect arrow syntax (use --> or ---), mismatched brackets."
    ELSE IF Contains("unexpected", error_msg)
    THEN "Unexpected token found. Check for typos in keywords or special characters."
    ELSE IF Contains("timeout", error_msg)
    THEN "Rendering timed out. Diagram might be too complex - try simplifying."
    ELSE "Check Mermaid syntax at: https://mermaid.js.org/syntax/"

\* lines 396-410
parse_mermaid_error(error_msg) ==
    IF Contains("syntax error", error_msg)
    THEN "Syntax error detected. Check for: missing semicolons, incorrect arrow syntax (use --> or ---), mismatched brackets."
    ELSE IF Contains("parse error", error_msg)
    THEN "Parse error. Verify diagram type declaration (graph TD, sequenceDiagram, etc.) and node connections."
    ELSE IF Contains("unexpected", error_msg)
    THEN "Unexpected token found. Check for typos in keywords or special characters."
    ELSE IF Contains("timeout", error_msg)
    THEN "Rendering timed out. Diagram might be too complex - try simplifying."
    ELSE "Check Mermaid syntax at: https://mermaid.js.org/syntax/"

(* ------------------------------ responses ------------------------------ *)

\* an f-string: its template, the numbers and the texts put into it
Fmt(template, nums, text) == [template |-> template, nums |-> nums, text |-> text]

RespEmpty ==
    [success |-> FALSE,
     error |-> Fmt("mermaid_code is empty - please provide Mermaid diagram syntax", <<>>, <<>>),
     suggestion |-> "Example: graph TD\n    A[Start] --> B[End]"]

RespTooLarge(mermaid_code) ==
    [success |-> FALSE,
     error |-> Fmt("Diagram code too large ({} chars, max {})",
                   <<Len(mermaid_code), max_size>>, <<>>),
     suggestion |-> "Simplify the diagram or split into multiple diagrams"]

RespBadFormat(output_format) ==
    [success |-> FALSE,
     error |-> Fmt("Invalid output_format: {}", <<>>, <<output_format>>),
     suggestion |-> "Use 'png', 'svg', or 'pdf'"]

RespExhausted(n) ==
    [success |-> FALSE,
     error |-> Fmt("Maximum retry attempts ({}) reached", <<max_attempts>>, <<>>),
     suggestion |-> "Unable to generate diagram after multiple attempts. Please verify Mermaid syntax is correct or simplify the diagram.",
     attempts |-> n,
     max_attempts |-> max_attempts]

RespWriteFailed(n) ==
    [success |-> FALSE,
     error |-> Fmt("Failed to write temp file: {}", <<>>, <<"OSError">>),
     attempt |-> n,
     max_attempts |-> max_attempts]

RespRenderFailure(error_msg, n, m) ==
    [success |-> FALSE,
     error |-> Fmt("{}", <<>>, error_msg),
     suggestion |-> parse_mermaid_error(error_msg),
     attempt |-> n,
     max_attempts |-> max_attempts,
     prompt |-> Fmt("Mermaid syntax error detected (attempt {}/{}). Please fix the errors and try again.",
                    <<m, max_attempts>>, <<>>)]

RespSuccess(a) ==
    [success |-> TRUE,
     message |-> Fmt("Generated {} diagram ({} bytes)", <<1>>, <<a.output_format>>),
     image_url |-> <<"http://localhost:8401/diagrams/", output_file(a), "?token=", "avicohen">>,
     file_name |-> output_file(a),
     format |-> a.output_format,
     size_bytes |-> 1]

RespTimeout(n) ==
    [success |-> FALSE,
     error |-> Fmt("Diagram generation timed out (30s limit)", <<>>, <<>>),
     suggestion |-> "Diagram is too complex - try simplifying it",
     attempt |-> n,
     max_attempts |-> max_attempts]

RespUnexpected(e, n) ==
    [success |-> FALSE,
     error |-> Fmt("Unexpected error: {}", <<>>, <<e>>),
     attempt |-> n,
     max_attempts |-> max_attempts]

\* the call ended by raising e to its caller: there is no response
Raised(e) == [exception |-> e]

\* no call of this worker has returned yet, or one is running
NoResponse == [pending |-> TRUE]

(* --------------------------- syntax validation -------------------------- *)

\* str.lower() on the letters the inputs of the model are written with
CharLower(c) ==
    CASE c = "G" -> "g" [] c = "R" -> "r" [] c = "A" -> "a" [] c = "P" -> "p" [] c = "H" -> "h"
      [] c = "I" -> "i" [] c = "E" -> "e" [] c = "D" -> "d" [] c = "T" -> "t"
      [] OTHER -> c

LowerText(s) == [i \in 1..Len(s) |-> CharLower(s[i])]

\* str.startswith
StartsWith(s, prefix) == Len(s) >= Len(prefix) /\ SubSeq(s, 1, Len(prefix)) = prefix

\* `sub in s` for strings
HasSub(sub, s) == \E i \in 1..(Len(s) - Len(sub) + 1) : SubSeq(s, i, i + Len(sub) - 1) = sub

\* str.split('\n'): the pieces between the newlines, at least one piece
RECURSIVE Split(_)
Split(s) ==
    IF \A i \in 1..Len(s) : s[i] # "\n" THEN <<s>>
    ELSE LET i == CHOOSE i \in 1..Len(s) : s[i] = "\n" /\ \A j \in 1..(i - 1) : s[j] # "\n"
         IN <<SubSeq(s, 1, i - 1)>> \o Split(SubSeq(s, i + 1, Len(s)))

\* str.count(c)
RECURSIVE count(_, _)
count(s, c) == IF s = <<>> THEN 0 ELSE (IF Head(s) = c THEN 1 ELSE 0) + count(Tail(s), c)

\* lines 372-393: the type is read off the start of the stripped, lower-cased source
detect_diagram_type(code) ==
    LET code_lower == LowerText(Strip(code))
    IN IF \/ StartsWith(code_lower, <<"g", "r", "a", "p", "h", " ">>)
          \/ StartsWith(code_lower, <<"f", "l", "o", "w", "c", "h", "a", "r", "t">>)
       THEN "flowchart"
       ELSE IF StartsWith(code_lower, <<"s", "e", "q", "u", "e", "n", "c", "e",
                                        "d", "i", "a", "g", "r", "a", "m">>)
       THEN "sequenceDiagram"
       ELSE IF StartsWith(code_lower, <<"c", "l", "a", "s", "s", "d", "i", "a", "g", "r", "a", "m">>)
       THEN "classDiagram"
       ELSE IF StartsWith(code_lower, <<"e", "r", "d", "i", "a", "g", "r", "a", "m">>)
       THEN "erDiagram"
       ELSE IF StartsWith(code_lower, <<"s", "t", "a", "t", "e", "d", "i", "a", "g", "r", "a", "m">>)
       THEN "stateDiagram"
       ELSE IF StartsWith(code_lower, <<"g", "a", "n", "t", "t">>)
       THEN "gantt"
       ELSE IF StartsWith(code_lower, <<"p", "i", "e">>)
       THEN "pie"
       ELSE IF StartsWith(code_lower, <<"g", "i", "t", "g", "r", "a", "p", "h">>)
       THEN "gitGraph"
       ELSE ""

\* a record with the one key, or without it
Field(key, value, present) ==
    IF present THEN [k \in {key} |-> value] ELSE [k \in {} |-> value]

\* mutant of open_brackets: only '[' is counted
OpenSquareOnly(mermaid_code) == count(mermaid_code, "[")

\* line 282
open_brackets(mermaid_code) ==
    count(mermaid_code, "[") + count(mermaid_code, "(") + count(mermaid_code, "{")

\* line 283
close_brackets(mermaid_code) ==
    count(mermaid_code, "]") + count(mermaid_code, ")") + count(mermaid_code, "}")

\* lines 247-305.  The marks that open the two prompts are left out of the
\* templates; ', '.join(errors) is the list of the errors.
validate_mermaid_syntax(mermaid_code) ==
    IF mermaid_code = <<>> \/ Strip(mermaid_code) = <<>>
    THEN [valid |-> FALSE,
          errors |-> <<Fmt("Empty diagram code", <<>>, <<>>)>>,
          suggestion |-> "Provide Mermaid diagram syntax"]
    ELSE
    LET diagram_type == detect_diagram_type(mermaid_code)
        lines == Split(Strip(mermaid_code))
        node_count ==
            Cardinality({ i \in 1..Len(lines) :
                            \/ HasSub(<<"-", "-", ">">>, lines[i])
                            \/ HasSub(<<"-", "-", "-">>, lines[i]) })
        errors ==
            (IF diagram_type = ""
             THEN <<Fmt("Unable to detect diagram type - must start with: graph, flowchart, sequenceDiagram, classDiagram, erDiagram, etc.",
                        <<>>, <<>>)>>
             ELSE <<>>)
            \o (IF open_brackets(mermaid_code) # close_brackets(mermaid_code)
                THEN <<Fmt("Mismatched brackets: {} open, {} closed",
                           <<open_brackets(mermaid_code), close_brackets(mermaid_code)>>, <<>>)>>
                ELSE <<>>)
        warnings ==
            (IF Len(lines) < 2
             THEN <<"Diagram has only one line - might be incomplete">>
             ELSE <<>>)
            \o (IF node_count = 0 /\ diagram_type \in {"graph", "flowchart"}
                THEN <<"No connections found (-->  or ---) - diagram might be empty">>
                ELSE <<>>)
        valid == Len(errors) = 0
    IN [valid |-> valid,
        diagram_type |-> IF diagram_type = "" THEN "unknown" ELSE diagram_type,
        node_count |-> node_count,
        line_count |-> Len(lines),
        prompt |-> IF valid
                   THEN Fmt("Mermaid syntax appears valid. Diagram type: {}, {} connections found.",
                            <<node_count>>, <<diagram_type>>)
                   ELSE Fmt("Mermaid syntax errors detected: {}", <<>>, errors)]
       @@ Field("errors", errors, errors # <<>>)
       @@ Field("warnings", warnings, warnings # <<>>)

(* -------------------------------- state -------------------------------- *)

VARIABLES
    pc,               \* per worker: where its call stands ("idle": no call running)
    args,             \* per worker: the call's arguments after lines 55-60 and 80-86
    attempts,         \* per worker: the local `attempts` read at line 99
    att,              \* per worker: the value read for "attempt" at line 193
    result,           \* per worker: what subprocess.run gave, or the exception caught
    response,         \* per worker: what its last finished call returned (or raised)
    attempt_tracker,  \* the module-level dict: code_hash -> attempt count
    tmp,              \* scratch files under /tmp: path -> content and the worker that wrote it
    artifacts,        \* output files the renderer has written
    admitted,         \* history: per code_hash, calls that passed line 100 and ran
                      \* line 111 since a record of that hash was last removed
    ncalls,           \* history: calls made so far in the scripted retry scenario
    prev,             \* history: the previous call of a sequential run: its response,
                      \* its source, its arguments and the count it read at line 99
    given,            \* history: the arguments as the caller gave them (before lines
                      \* 55-60 and 80-86), or the argument of a helper function
    returned          \* what a helper function returned for `given`

pvars == <<pc, args, attempts, att, result, response, attempt_tracker, tmp, artifacts,
           admitted>>

vars == <<pc, args, attempts, att, result, response, attempt_tracker, tmp, artifacts,
          admitted, ncalls, prev, given, returned>>

NoArgs ==
    [mermaid_code |-> <<>>, output_format |-> "", filename |-> "", theme |-> "",
     background |-> "", scale |-> DefaultScale, width |-> DefaultWidth]

NoResult ==
    [kind |-> "none", returncode |-> 0, stderr |-> <<>>, stdout |-> <<>>,
     wrote |-> FALSE, exc |-> ""]

NoPrev == [resp |-> NoResponse, code |-> <<>>, attempts |-> 0, args |-> NoArgs]

\* the state after the module is loaded: no call yet, an empty ledger
Loaded ==
    /\ pc = [p \in Procs |-> "idle"]
    /\ args = [p \in Procs |-> NoArgs]
    /\ attempts = [p \in Procs |-> 0]
    /\ att = [p \in Procs |-> 0]
    /\ result = [p \in Procs |-> NoResult]
    /\ response = [p \in Procs |-> NoResponse]
    /\ attempt_tracker = <<>>
    /\ tmp = <<>>
    /\ artifacts = {}
    /\ admitted = <<>>
    /\ ncalls = 0
    /\ prev = NoPrev

Init ==
    /\ Loaded
    /\ given = NoArgs
    /\ returned = NoResponse

\* mutant of Hash: the key is taken from the source and the output format
HashOfSourceAndFormat(p) ==
    <<code_hash(args[p].mermaid_code), args[p].output_format>>

\* code_hash of the call worker p is running (or ran last)
Hash(p) == code_hash(args[p].mermaid_code)

(* ------------------------------ validation ----------------------------- *)

\* mutant of Normalise: lines 80-86 missing, scale and width pass as given
NormaliseKeepsSizes(raw) ==
    [mermaid_code |-> raw.mermaid_code,
     output_format |-> IF raw.output_format = "" THEN default_format ELSE raw.output_format,
     filename |-> raw.filename,
     theme |-> IF raw.theme = "" THEN default_theme ELSE raw.theme,
     background |-> IF raw.background = "" THEN default_background ELSE raw.background,
     scale |-> raw.scale,
     width |-> raw.width]

\* lines 55-60: config defaults for options not given;
\* lines 80-86: an out-of-set scale or out-of-range width is replaced
Normalise(raw) ==
    [mermaid_code |-> raw.mermaid_code,
     output_format |-> IF raw.output_format = "" THEN default_format ELSE raw.output_format,
     filename |-> raw.filename,
     theme |-> IF raw.theme = "" THEN default_theme ELSE raw.theme,
     background |-> IF raw.background = "" THEN default_background ELSE raw.background,
     scale |-> IF raw.scale \in {1, 2, 3} THEN raw.scale ELSE DefaultScale,
     width |-> IF MinWidth <= raw.width /\ raw.width <= MaxWidth THEN raw.width
               ELSE DefaultWidth]

\* mutant of Validate: the size limit of line 72 is not checked
ValidateNoSizeLimit(a) ==
    IF a.mermaid_code = <<>> \/ Strip(a.mermaid_code) = <<>> THEN RespEmpty
    ELSE IF a.output_format \notin {"png", "svg", "pdf"} THEN RespBadFormat(a.output_format)
    ELSE NoResponse

\* lines 65, 72, 88: the three rejections, in the code's order;
\* NoResponse when the arguments pass
Validate(a) ==
    IF a.mermaid_code = <<>> \/ Strip(a.mermaid_code) = <<>> THEN RespEmpty
    ELSE IF Len(a.mermaid_code) > max_size THEN RespTooLarge(a.mermaid_code)
    ELSE IF a.output_format \notin {"png", "svg", "pdf"} THEN RespBadFormat(a.output_format)
    ELSE NoResponse

(* ------------------------------- actions ------------------------------- *)

\* the call of worker p returns r (or raises): its locals result and att end
\* with it; args and attempts are kept as the record of the call that ran last
Return(p, r) ==
    /\ response' = [response EXCEPT ![p] = r]
    /\ pc' = [pc EXCEPT ![p] = "idle"]
    /\ att' = [att EXCEPT ![p] = 0]
    /\ result' = [result EXCEPT ![p] = NoResult]

\* lines 35-96: a call starts; a rejected call returns at once
Call(p, raw) ==
    /\ pc[p] = "idle"
    /\ LET a == Normalise(raw)
           v == Validate(a)
       IN /\ args' = [args EXCEPT ![p] = a]
          /\ response' = [response EXCEPT ![p] = v]
          /\ pc' = [pc EXCEPT ![p] = IF v = NoResponse THEN "check" ELSE "idle"]
    /\ attempts' = [attempts EXCEPT ![p] = 0]
    /\ att' = [att EXCEPT ![p] = 0]
    /\ result' = [result EXCEPT ![p] = NoResult]
    /\ UNCHANGED <<attempt_tracker, tmp, artifacts, admitted>>

\* mutant of Check: the test of line 100 is attempts > max_attempts
CheckAboveMax(p) ==
    /\ pc[p] = "check"
    /\ LET n == Get(attempt_tracker, Hash(p), 0)
       IN /\ attempts' = [attempts EXCEPT ![p] = n]
          /\ pc' = [pc EXCEPT ![p] = IF n > max_attempts THEN "exhausted" ELSE "reserve"]
    /\ UNCHANGED <<args, att, result, response, attempt_tracker, tmp, artifacts, admitted>>

\* lines 99-100: attempts = attempt_tracker.get(code_hash, 0) and the threshold test
Check(p) ==
    /\ pc[p] = "check"
    /\ LET n == Get(attempt_tracker, Hash(p), 0)
       IN /\ attempts' = [attempts EXCEPT ![p] = n]
          /\ pc' = [pc EXCEPT ![p] = IF n >= max_attempts THEN "exhausted" ELSE "reserve"]
    /\ UNCHANGED <<args, att, result, response, attempt_tracker, tmp, artifacts, admitted>>

\* mutant of Exhausted: line 101 is attempt_tracker.clear(), every record goes
ExhaustedClearsLedger(p) ==
    /\ pc[p] = "exhausted"
    /\ attempt_tracker' = <<>>
    /\ admitted' = <<>>
    /\ Return(p, RespExhausted(attempts[p]))
    /\ UNCHANGED <<args, attempts, tmp, artifacts>>

\* mutant of Exhausted: line 101 missing, the record stays in the ledger
ExhaustedKeepsRecord(p) ==
    /\ pc[p] = "exhausted"
    /\ Return(p, RespExhausted(attempts[p]))
    /\ UNCHANGED <<args, attempts, attempt_tracker, tmp, artifacts, admitted>>

\* lines 101-108: budget exhausted: the record is removed and the call returns
Exhausted(p) ==
    /\ pc[p] = "exhausted"
    /\ attempt_tracker' = Pop(attempt_tracker, Hash(p))
    /\ admitted' = Pop(admitted, Hash(p))
    /\ Return(p, RespExhausted(attempts[p]))
    /\ UNCHANGED <<args, attempts, tmp, artifacts>>

\* line 111: attempt_tracker[code_hash] = attempts + 1
Reserve(p) ==
    /\ pc[p] = "reserve"
    /\ attempt_tracker' = Put(attempt_tracker, Hash(p), attempts[p] + 1)
    /\ admitted' = Put(admitted, Hash(p), Get(admitted, Hash(p), 0) + 1)
    /\ pc' = [pc EXCEPT ![p] = "write"]
    /\ UNCHANGED <<args, attempts, att, result, response, tmp, artifacts>>

\* lines 125-129: the source is written to the scratch file, or open() raises
WriteScratch(p, ok) ==
    /\ pc[p] = "write"
    /\ IF ok
       THEN /\ tmp' = Put(tmp, input_file(Hash(p)),
                          [content |-> args[p].mermaid_code, writer |-> p])
            /\ pc' = [pc EXCEPT ![p] = "run"]
       ELSE /\ tmp' = tmp
            /\ pc' = [pc EXCEPT ![p] = "write_failed"]
    /\ UNCHANGED <<args, attempts, att, result, response, attempt_tracker, artifacts,
                   admitted>>

\* lines 130-135: the handler of the failed write reads attempt_tracker[code_hash];
\* a KeyError raised here is raised inside an except clause and leaves the call
WriteFailed(p) ==
    /\ pc[p] = "write_failed"
    /\ Return(p, IF Hash(p) \in DOMAIN attempt_tracker
                 THEN RespWriteFailed(attempt_tracker[Hash(p)])
                 ELSE Raised("KeyError"))
    /\ UNCHANGED <<args, attempts, attempt_tracker, tmp, artifacts, admitted>>

\* lines 172-177: subprocess.run returns r, times out or raises
Run(p, r) ==
    /\ pc[p] = "run"
    /\ result' = [result EXCEPT ![p] = r]
    /\ artifacts' = IF r.wrote THEN artifacts \cup {output_file(args[p])} ELSE artifacts
    /\ pc' = [pc EXCEPT ![p] =
           CASE r.kind = "exit" -> "cleanup"
             [] r.kind = "timeout" -> "on_timeout"
             [] OTHER -> "on_exception"]
    /\ UNCHANGED <<args, attempts, att, response, attempt_tracker, tmp, admitted>>

\* lines 179-185: os.remove(input_file), its errors swallowed; then the exit code test
Cleanup(p) ==
    /\ pc[p] = "cleanup"
    /\ tmp' = Pop(tmp, input_file(Hash(p)))
    /\ pc' = [pc EXCEPT ![p] = IF result[p].returncode # 0 THEN "fail_attempt" ELSE "reset"]
    /\ UNCHANGED <<args, attempts, att, result, response, attempt_tracker, artifacts,
                   admitted>>

\* lines 186-193: the failure response is built up to "attempt":
\* attempt_tracker[code_hash] is read; a KeyError goes to line 231
FailAttempt(p) ==
    /\ pc[p] = "fail_attempt"
    /\ IF Hash(p) \in DOMAIN attempt_tracker
       THEN /\ att' = [att EXCEPT ![p] = attempt_tracker[Hash(p)]]
            /\ result' = result
            /\ pc' = [pc EXCEPT ![p] = "fail_prompt"]
       ELSE /\ att' = att
            /\ result' = [result EXCEPT ![p].exc = "KeyError"]
            /\ pc' = [pc EXCEPT ![p] = "on_exception"]
    /\ UNCHANGED <<args, attempts, response, attempt_tracker, tmp, artifacts, admitted>>

\* error_msg = result.stderr or result.stdout or "Unknown error"
ErrorMsg(r) ==
    IF r.stderr # <<>> THEN r.stderr
    ELSE IF r.stdout # <<>> THEN r.stdout
    ELSE <<"Unknown error">>

\* lines 194-196: "prompt" reads attempt_tracker[code_hash] again; the call returns
FailPrompt(p) ==
    /\ pc[p] = "fail_prompt"
    /\ IF Hash(p) \in DOMAIN attempt_tracker
       THEN Return(p, RespRenderFailure(ErrorMsg(result[p]), att[p],
                                        attempt_tracker[Hash(p)]))
       ELSE /\ response' = response
            /\ att' = att
            /\ result' = [result EXCEPT ![p].exc = "KeyError"]
            /\ pc' = [pc EXCEPT ![p] = "on_exception"]
    /\ UNCHANGED <<args, attempts, attempt_tracker, tmp, artifacts, admitted>>

\* mutant of Reset: line 199 missing, a success leaves the record in the ledger
ResetKeepsRecord(p) ==
    /\ pc[p] = "reset"
    /\ pc' = [pc EXCEPT ![p] = "stat"]
    /\ UNCHANGED <<args, attempts, att, result, response, attempt_tracker, tmp, artifacts,
                   admitted>>

\* lines 198-199: exit code zero: attempt_tracker.pop(code_hash, None)
Reset(p) ==
    /\ pc[p] = "reset"
    /\ attempt_tracker' = Pop(attempt_tracker, Hash(p))
    /\ admitted' = Pop(admitted, Hash(p))
    /\ pc' = [pc EXCEPT ![p] = "stat"]
    /\ UNCHANGED <<args, attempts, att, result, response, tmp, artifacts>>

\* lines 201-221: os.path.getsize(output_file), then the success response;
\* getsize raises when the renderer wrote no output file
Stat(p) ==
    /\ pc[p] = "stat"
    /\ IF output_file(args[p]) \in artifacts
       THEN Return(p, RespSuccess(args[p]))
       ELSE /\ response' = response
            /\ att' = att
            /\ result' = [result EXCEPT ![p].exc = "FileNotFoundError"]
            /\ pc' = [pc EXCEPT ![p] = "on_exception"]
    /\ UNCHANGED <<args, attempts, attempt_tracker, tmp, artifacts, admitted>>

\* lines 223-230: except subprocess.TimeoutExpired; the handler reads
\* attempt_tracker[code_hash], and a KeyError raised there leaves the call
OnTimeout(p) ==
    /\ pc[p] = "on_timeout"
    /\ Return(p, IF Hash(p) \in DOMAIN attempt_tracker
                 THEN RespTimeout(attempt_tracker[Hash(p)])
                 ELSE Raised("KeyError"))
    /\ UNCHANGED <<args, attempts, attempt_tracker, tmp, artifacts, admitted>>

\* lines 231-238: except Exception; the handler reads attempt_tracker[code_hash],
\* and a KeyError raised there leaves the call
OnException(p) ==
    /\ pc[p] = "on_exception"
    /\ Return(p, IF Hash(p) \in DOMAIN attempt_tracker
                 THEN RespUnexpected(result[p].exc, attempt_tracker[Hash(p)])
                 ELSE Raised("KeyError"))
    /\ UNCHANGED <<args, attempts, attempt_tracker, tmp, artifacts, admitted>>

(* ------------------------- inputs of the model -------------------------- *)

Req(code, fmt, scale, width) ==
    [mermaid_code |-> code, output_format |-> fmt, filename |-> "", theme |-> "",
     background |-> "", scale |-> scale, width |-> width]

\* a source one character longer than the configured maximum
LongCode == [i \in 1..(max_size + 1) |-> "a"]

Exit(returncode, stderr, stdout, wrote) ==
    [kind |-> "exit", returncode |-> returncode, stderr |-> stderr, stdout |-> stdout,
     wrote |-> wrote, exc |-> ""]

TimedOut(wrote) ==
    [kind |-> "timeout", returncode |-> 0, stderr |-> <<>>, stdout |-> <<>>,
     wrote |-> wrote, exc |-> "TimeoutExpired"]

SpawnError ==
    [kind |-> "error", returncode |-> 0, stderr |-> <<>>, stdout |-> <<>>,
     wrote |-> FALSE, exc |-> "FileNotFoundError"]

\* concurrent workers: calls that share one source (one code_hash), and a
\* rejected call
ConcRequests ==
    {Req(c, "", DefaultScale, DefaultWidth) : c \in {<<"a">>, <<" ">>}}

ConcOutcomes ==
    {Exit(0, <<>>, <<>>, TRUE), Exit(0, <<>>, <<>>, FALSE),
     Exit(1, <<"Parse error">>, <<>>, FALSE), TimedOut(FALSE), SpawnError}

\* two workers at the same time: the first calls with one source or with a
\* blank one, the second with the same source or with another one (two
\* code_hash values); the renderer succeeds, fails or times out
Pair == {1, 2}

PairRequests(p) ==
    {Req(c, "", DefaultScale, DefaultWidth) :
        c \in IF p = 1 THEN {<<"a">>, <<" ">>} ELSE {<<"a">>, <<"b">>}}

PairOutcomes ==
    {Exit(0, <<>>, <<>>, TRUE), Exit(1, <<"Parse error">>, <<>>, FALSE), TimedOut(FALSE)}

\* one worker: every kind of argument and every kind of renderer run
SeqRequests ==
    {Req(c, f, DefaultScale, DefaultWidth) :
        c \in {<<>>, <<" ">>, <<"a">>, <<"b">>, LongCode},
        f \in {"", "gif"}}

SeqOutcomes ==
    {Exit(0, <<>>, <<>>, TRUE), Exit(0, <<>>, <<>>, FALSE),
     Exit(0, <<"Warning">>, <<>>, TRUE),
     Exit(1, <<"Error:", "Syntax error">>, <<>>, FALSE),
     Exit(1, <<>>, <<"Timeout">>, FALSE),
     TimedOut(FALSE), SpawnError}

\* the retry scenario: one source, a renderer that always fails
RetryCode == <<"a">>

RetryRequests == {Req(RetryCode, f, s, DefaultWidth) : f \in {"", "png", "pdf"}, s \in {1, 2}}

RetryOutcomes ==
    {Exit(1, <<"Error:", "Syntax error">>, <<>>, FALSE),
     Exit(1, <<>>, <<"Unexpected">>, FALSE),
     Exit(2, <<>>, <<>>, FALSE)}

MaxCalls == max_attempts + ExtraCalls

\* a call with every argument spelled out
Request(code, fmt, filename, theme, background, scale, width) ==
    [mermaid_code |-> code, output_format |-> fmt, filename |-> filename, theme |-> theme,
     background |-> background, scale |-> scale, width |-> width]

\* calls that differ in their options: defaults, every option given, scale
\* and width outside and at the edge of what lines 80 and 84 accept
OptRequests ==
    { Request(<<"a">>, "", "", "", "", DefaultScale, DefaultWidth),
      Request(<<"a">>, "png", "out", "dark", "transparent", 3, MaxWidth),
      Request(<<"a">>, "pdf", "", "", "", 9, 100),
      Request(<<"a">>, "png", "", "", "", 0, MinWidth),
      Request(<<"a">>, "png", "", "", "", 1, MaxWidth + 1),
      Request(<<"a">>, "svg", "", "forest", "", 4, MinWidth - 1),
      Request(<<"b">>, "png", "", "", "", DefaultScale, DefaultWidth),
      Request(<<"b">>, "", "", "", "", 9, 100) }

\* what a renderer message is made of: the four keywords in several
\* spellings, and text that holds none of them
ErrorTokens ==
    { "syntax error", "Syntax error", "SYNTAX ERROR", "parse error", "Parse Error",
      "unexpected", "UNEXPECTED", "timeout", "TimeOut", "Error:", "line 3" }

\* the messages of up to MaxTokens tokens
Messages == UNION { [1..n -> ErrorTokens] : n \in 0..MaxTokens }

\* how the sources given to validate_mermaid_syntax open: every diagram type,
\* upper case, leading white space, 'graph' without its space, and no type
Openings ==
    { <<>>,
      <<"x">>,
      <<"g", "r", "a", "p", "h", " ">>,
      <<"G", "R", "A", "P", "H", " ">>,
      <<"g", "r", "a", "p", "h", "\n">>,
      <<"f", "l", "o", "w", "c", "h", "a", "r", "t">>,
      <<"s", "e", "q", "u", "e", "n", "c", "e", "D", "i", "a", "g", "r", "a", "m">>,
      <<"c", "l", "a", "s", "s", "D", "i", "a", "g", "r", "a", "m">>,
      <<"e", "r", "D", "i", "a", "g", "r", "a", "m">>,
      <<"s", "t", "a", "t", "e", "D", "i", "a", "g", "r", "a", "m">>,
      <<"g", "a", "n", "t", "t">>,
      <<" ", "\n", "P", "i", "e">>,
      <<"g", "i", "t", "G", "r", "a", "p", "h">> }

BodyChars == {"[", "]", "(", "}", "\n", "-", ">", " "}

\* an opening followed by up to MaxBody characters
SyntaxSources ==
    { o \o b : o \in Openings, b \in UNION { [1..n -> BodyChars] : n \in 0..MaxBody } }

OptOutcomes ==
    { Exit(0, <<>>, <<>>, TRUE),
      Exit(1, <<"Syntax error">>, <<>>, FALSE) }

(* ---------------------------- specifications --------------------------- *)

\* the history variables no action of the program writes
hist == <<ncalls, prev, given, returned>>

\* workers run calls concurrently
Next ==
    \/ \E p \in Procs, raw \in ConcRequests : Call(p, raw) /\ UNCHANGED hist
    \/ \E p \in Procs : Check(p) /\ UNCHANGED hist
    \/ \E p \in Procs : Exhausted(p) /\ UNCHANGED hist
    \/ \E p \in Procs : Reserve(p) /\ UNCHANGED hist
    \/ \E p \in Procs, ok \in BOOLEAN : WriteScratch(p, ok) /\ UNCHANGED hist
    \/ \E p \in Procs : WriteFailed(p) /\ UNCHANGED hist
    \/ \E p \in Procs, r \in ConcOutcomes : Run(p, r) /\ UNCHANGED hist
    \/ \E p \in Procs : Cleanup(p) /\ UNCHANGED hist
    \/ \E p \in Procs : FailAttempt(p) /\ UNCHANGED hist
    \/ \E p \in Procs : FailPrompt(p) /\ UNCHANGED hist
    \/ \E p \in Procs : Reset(p) /\ UNCHANGED hist
    \/ \E p \in Procs : Stat(p) /\ UNCHANGED hist
    \/ \E p \in Procs : OnTimeout(p) /\ UNCHANGED hist
    \/ \E p \in Procs : OnException(p) /\ UNCHANGED hist

Spec == Init /\ [][Next]_vars

\* workers running at the same time on two sources; the scratch file can be
\* written
PairNext ==
    \/ \E p \in Pair : \E raw \in PairRequests(p) : Call(p, raw) /\ UNCHANGED hist
    \/ \E p \in Pair : Check(p) /\ UNCHANGED hist
    \/ \E p \in Pair : Exhausted(p) /\ UNCHANGED hist
    \/ \E p \in Pair : Reserve(p) /\ UNCHANGED hist
    \/ \E p \in Pair : WriteScratch(p, TRUE) /\ UNCHANGED hist
    \/ \E p \in Pair, r \in PairOutcomes : Run(p, r) /\ UNCHANGED hist
    \/ \E p \in Pair : Cleanup(p) /\ UNCHANGED hist
    \/ \E p \in Pair : FailAttempt(p) /\ UNCHANGED hist
    \/ \E p \in Pair : FailPrompt(p) /\ UNCHANGED hist
    \/ \E p \in Pair : Reset(p) /\ UNCHANGED hist
    \/ \E p \in Pair : Stat(p) /\ UNCHANGED hist
    \/ \E p \in Pair : OnTimeout(p) /\ UNCHANGED hist
    \/ \E p \in Pair : OnException(p) /\ UNCHANGED hist

PairSpec == Init /\ [][PairNext]_vars

\* one worker: every call returns before the next starts
SeqNext ==
    \/ \E raw \in SeqRequests :
          /\ Call(1, raw)
          /\ prev' = [resp |-> response[1], code |-> args[1].mermaid_code,
                      attempts |-> attempts[1], args |-> args[1]]
          /\ UNCHANGED <<ncalls, given, returned>>
    \/ \E p \in {1} : Check(p) /\ UNCHANGED hist
    \/ \E p \in {1} : Exhausted(p) /\ UNCHANGED hist
    \/ \E p \in {1} : Reserve(p) /\ UNCHANGED hist
    \/ \E p \in {1}, ok \in BOOLEAN : WriteScratch(p, ok) /\ UNCHANGED hist
    \/ \E p \in {1} : WriteFailed(p) /\ UNCHANGED hist
    \/ \E p \in {1}, r \in SeqOutcomes : Run(p, r) /\ UNCHANGED hist
    \/ \E p \in {1} : Cleanup(p) /\ UNCHANGED hist
    \/ \E p \in {1} : FailAttempt(p) /\ UNCHANGED hist
    \/ \E p \in {1} : FailPrompt(p) /\ UNCHANGED hist
    \/ \E p \in {1} : Reset(p) /\ UNCHANGED hist
    \/ \E p \in {1} : Stat(p) /\ UNCHANGED hist
    \/ \E p \in {1} : OnTimeout(p) /\ UNCHANGED hist
    \/ \E p \in {1} : OnException(p) /\ UNCHANGED hist

SeqSpec == Init /\ [][SeqNext]_vars

\* one worker calls MaxCalls times with the same source; the renderer always
\* fails and the scratch file can be written
RetryNext ==
    \/ \E raw \in RetryRequests :
          /\ ncalls < MaxCalls
          /\ Call(1, raw)
          /\ ncalls' = ncalls + 1
          /\ UNCHANGED <<prev, given, returned>>
    \/ Check(1) /\ UNCHANGED hist
    \/ Exhausted(1) /\ UNCHANGED hist
    \/ Reserve(1) /\ UNCHANGED hist
    \/ WriteScratch(1, TRUE) /\ UNCHANGED hist
    \/ \E r \in RetryOutcomes : Run(1, r) /\ UNCHANGED hist
    \/ Cleanup(1) /\ UNCHANGED hist
    \/ FailAttempt(1) /\ UNCHANGED hist
    \/ FailPrompt(1) /\ UNCHANGED hist

RetrySpec == Init /\ [][RetryNext]_vars

\* one worker calls with the same sources under different options: every
\* option is given and left out, scale and width are in and out of range;
\* the renderer succeeds or fails
OptNext ==
    \/ \E raw \in OptRequests :
          /\ Call(1, raw)
          /\ prev' = [resp |-> response[1], code |-> args[1].mermaid_code,
                      attempts |-> attempts[1], args |-> args[1]]
          /\ given' = raw
          /\ UNCHANGED <<ncalls, returned>>
    \/ Check(1) /\ UNCHANGED hist
    \/ Exhausted(1) /\ UNCHANGED hist
    \/ Reserve(1) /\ UNCHANGED hist
    \/ WriteScratch(1, TRUE) /\ UNCHANGED hist
    \/ \E r \in OptOutcomes : Run(1, r) /\ UNCHANGED hist
    \/ Cleanup(1) /\ UNCHANGED hist
    \/ FailAttempt(1) /\ UNCHANGED hist
    \/ FailPrompt(1) /\ UNCHANGED hist
    \/ Reset(1) /\ UNCHANGED hist
    \/ Stat(1) /\ UNCHANGED hist

OptSpec == Init /\ [][OptNext]_vars

\* parse_mermaid_error on its own: a message is drawn, the function is applied
NoAdvice == ""

AdvisorInit ==
    /\ Loaded
    /\ given \in Messages
    /\ returned = NoAdvice

Advise ==
    /\ returned = NoAdvice
    /\ returned' = parse_mermaid_error(given)
    /\ UNCHANGED <<pvars, ncalls, prev, given>>

AdvisorNext == Advise

AdvisorSpec == AdvisorInit /\ [][AdvisorNext]_vars

\* validate_mermaid_syntax on its own: a source is drawn, the function is applied
SyntaxInit ==
    /\ Loaded
    /\ given \in SyntaxSources
    /\ returned = NoResponse

ValidateSyntax ==
    /\ returned = NoResponse
    /\ returned' = validate_mermaid_syntax(given)
    /\ UNCHANGED <<pvars, ncalls, prev, given>>

SyntaxNext == ValidateSyntax

SyntaxSpec == SyntaxInit /\ [][SyntaxNext]_vars

(* ------------------------- reading a response -------------------------- *)

\* the outcome a response stands for (spec.md, RenderOutcome and section 7)
Kind(r) ==
    IF "pending" \in DOMAIN r THEN "None"
    ELSE IF "exception" \in DOMAIN r THEN "Raised"
    ELSE IF r.success THEN "Success"
    ELSE IF "attempts" \in DOMAIN r THEN "BudgetExhausted"
    ELSE IF "prompt" \in DOMAIN r THEN "RenderFailure"
    ELSE IF "attempt" \notin DOMAIN r THEN "ValidationFailure"
    ELSE IF r.error.template = "Diagram generation timed out (30s limit)" THEN "Timeout"
    ELSE IF r.error.template = "Failed to write temp file: {}" THEN "WriteFailure"
    ELSE "UnexpectedFailure"

\* a structured response: a record with a success field
Structured(r) == "success" \in DOMAIN r

Idle(p) == pc[p] = "idle"

\* worker p's last call has ended (returned or raised)
Ended(p) == Idle(p) /\ Kind(response[p]) # "None"

Count(h) == Get(attempt_tracker, h, 0)

(* ------------------------------- claims -------------------------------- *)

\* C1: from an empty ledger, max_attempts consecutive sequential calls with the
\* same source and an always-failing renderer return attempt numbers
\* 1..max_attempts in that order; the next call returns the budget-exhausted
\* error, carries no attempt number and removes the record; the call after it
\* is admitted with attempt number 1 (and so on, in cycles of max_attempts + 1
\* calls).  ncalls is the number of the call that has just ended.
C1_RetryCycle ==
    (Idle(1) /\ ncalls >= 1) =>
        LET r == response[1]
            k == (ncalls - 1) % (max_attempts + 1)
        IN IF k < max_attempts
           THEN /\ Kind(r) = "RenderFailure"
                /\ r.attempt = k + 1
                /\ Count(code_hash(RetryCode)) = k + 1
           ELSE /\ Kind(r) = "BudgetExhausted"
                /\ "attempt" \notin DOMAIN r
                /\ code_hash(RetryCode) \notin DOMAIN attempt_tracker

\* C1 witness: the call after the budget-exhausted one has ended with attempt 1
C1_Witness ==
    /\ Idle(1)
    /\ ncalls = max_attempts + 2
    /\ Kind(response[1]) = "RenderFailure"
    /\ response[1].attempt = 1

\* C2: calls sharing one code_hash: never more than max_attempts of them are
\* admitted (pass line 100 and run line 111) while no record of that hash is
\* removed in between
C2_AtMostMaxAdmitted ==
    \A h \in DOMAIN admitted : admitted[h] <= max_attempts

\* C3: no update of the ledger is lost: the count of a record equals the
\* number of calls admitted for its hash since the record was last removed
C3_NoLostUpdate ==
    \A h \in DOMAIN admitted \cup DOMAIN attempt_tracker :
        Count(h) = Get(admitted, h, 0)

\* the last call of worker p wrote its scratch file: it ended in an outcome
\* that lies behind the write of lines 125-128 (in a sequential run a raised
\* KeyError comes only from line 236, behind the renderer run)
WroteScratch(p) ==
    Kind(response[p]) \in {"Success", "RenderFailure", "Timeout", "UnexpectedFailure",
                            "Raised"}

\* C4: after a call that wrote its scratch input file has ended, the scratch
\* file no longer exists, whatever the exit path (sequential calls)
C4_ScratchRemoved ==
    (Ended(1) /\ WroteScratch(1)) => input_file(Hash(1)) \notin DOMAIN tmp

\* C5: every call ends by returning a structured response: no exception
\* leaves the call
C5_AlwaysStructured ==
    \A p \in Procs : Ended(p) => Structured(response[p])

\* C6: a successful render removes the record of its hash whatever the count
\* was, and the next admitted call for the same source gets attempt number 1
\* (sequential calls)
C6_SuccessResets ==
    /\ (Ended(1) /\ Kind(response[1]) = "Success")
          => Hash(1) \notin DOMAIN attempt_tracker
    /\ (Kind(prev.resp) = "Success" /\ prev.code = args[1].mermaid_code)
          => /\ pc[1] = "write" => (attempts[1] = 0 /\ Count(Hash(1)) = 1)
             /\ (Idle(1) /\ "attempt" \in DOMAIN response[1]) => response[1].attempt = 1

\* C6 witness: a call admitted with attempt number 1 right after a success of
\* the same source that itself followed at least one failed attempt
C6_Witness ==
    /\ pc[1] = "write"
    /\ Kind(prev.resp) = "Success"
    /\ prev.code = args[1].mermaid_code
    /\ prev.attempts >= 1
    /\ Count(Hash(1)) = 1

\* C7: after a sequential admitted call that did not end in Success, the record
\* of its hash exists and holds the attempt number the call reserved
C7_FailureKeepsCount ==
    (Ended(1) /\ Kind(response[1]) \in {"RenderFailure", "Timeout", "WriteFailure",
                                         "UnexpectedFailure", "Raised"})
        => /\ Hash(1) \in DOMAIN attempt_tracker
           /\ attempt_tracker[Hash(1)] = attempts[1] + 1

\* the arguments input validation is to reject, in the words of the claim
IsBlank(code) == \A i \in 1..Len(code) : code[i] \in {" ", "\n"}

Invalid(a) ==
    \/ IsBlank(a.mermaid_code)
    \/ Len(a.mermaid_code) > max_size
    \/ a.output_format \notin {"svg", "png", "pdf"}

\* C8: a call with a blank source, a source longer than max_size or a format
\* outside {svg, png, pdf} returns a validation failure in its first step,
\* leaves the ledger of every hash, the scratch files and the output files
\* unchanged and never gets to the ledger, the scratch file or the renderer
C8_RejectedCallTouchesNothing ==
    [][\A p \in Procs :
          (/\ pc[p] = "idle"
           /\ (args'[p] # args[p] \/ response'[p] # response[p])
           /\ Invalid(args'[p]))
          => /\ pc'[p] = "idle"
             /\ Kind(response'[p]) = "ValidationFailure"
             /\ attempt_tracker' = attempt_tracker
             /\ tmp' = tmp
             /\ artifacts' = artifacts]_vars

\* C8 witness: a too long source was rejected while the ledger holds a record
C8_Witness ==
    /\ Idle(1)
    /\ Kind(response[1]) = "ValidationFailure"
    /\ Len(args[1].mermaid_code) > max_size
    /\ attempt_tracker # <<>>

\* C9: a renderer run that ends with a non-zero exit code or with a non-empty
\* error stream makes the call return RenderFailure, with the raw message,
\* the attempt number, max_attempts and a suggestion
C9_StderrOrExitCodeIsFailure ==
    [][\A p \in Procs :
          (/\ result[p].kind = "exit"
           /\ (result[p].returncode # 0 \/ result[p].stderr # <<>>)
           /\ pc[p] # "idle" /\ pc'[p] = "idle")
          => /\ Kind(response'[p]) = "RenderFailure"
             /\ response'[p].max_attempts = max_attempts
             /\ "attempt" \in DOMAIN response'[p]
             /\ "suggestion" \in DOMAIN response'[p]]_vars

\* C10: between the write of its scratch file and the end of its renderer
\* run, a call's scratch file exists and is the one this call wrote: no other
\* call has overwritten or deleted it
C10_ScratchNotShared ==
    \A p \in Procs :
        pc[p] = "run" =>
            /\ input_file(Hash(p)) \in DOMAIN tmp
            /\ tmp[input_file(Hash(p))].writer = p

\* C11: the attempt number in a RenderFailure, Timeout or UnexpectedFailure
\* response is the one this call reserved at line 111 (attempts + 1), whatever
\* other calls of the same code_hash did in between
C11_ResponseCarriesReservedNumber ==
    \A p \in Procs :
        (Ended(p) /\ Kind(response[p]) \in {"RenderFailure", "Timeout", "UnexpectedFailure"})
            => response[p].attempt = attempts[p] + 1

\* the call of worker p has run line 99 and is still running
PastCheck(p) == pc[p] \notin {"idle", "check"}

\* C12: the ledger key is taken from the source text alone: a call whose
\* source is the one of the previous, failed call reads the count that call
\* left (the number it reported), whatever format, theme, background, scale,
\* width or filename either call was given
C12_KeyIsSourceOnly ==
    (/\ PastCheck(1)
     /\ Kind(prev.resp) = "RenderFailure"
     /\ prev.code = args[1].mermaid_code)
        => attempts[1] = prev.resp.attempt

\* a retry with a different format, theme, background, scale, width and
\* filename than the failed call before it has read that call's count
C12_Witness ==
    /\ pc[1] = "reserve"
    /\ Kind(prev.resp) = "RenderFailure"
    /\ prev.code = args[1].mermaid_code
    /\ prev.args.output_format # args[1].output_format
    /\ prev.args.theme # args[1].theme
    /\ prev.args.background # args[1].background
    /\ prev.args.scale # args[1].scale
    /\ prev.args.width # args[1].width
    /\ prev.args.filename # args[1].filename
    /\ attempts[1] = 1

\* the responses of a call that passed validation and did not succeed
PostValidationFailure(r) ==
    Kind(r) \in {"BudgetExhausted", "WriteFailure", "RenderFailure", "Timeout",
                 "UnexpectedFailure"}

\* C13: every failure response after validation (budget exhausted, scratch
\* write failed, render failure, timeout, unexpected error) has success =
\* false and the keys error, suggestion, attempt and max_attempts
C13_FailureResponseShape ==
    \A p \in Procs :
        (Ended(p) /\ PostValidationFailure(response[p]))
            => /\ {"success", "error", "suggestion", "attempt", "max_attempts"}
                      \subseteq DOMAIN response[p]
               /\ response[p].success = FALSE

\* the command line has the flag, followed by the value
HasFlag(cmd, flag, value) ==
    \E i \in 1..(Len(cmd) - 1) : cmd[i] = <<flag>> /\ cmd[i + 1] = value

\* the call the worker is running, or ran last, was given a scale outside
\* {1, 2, 3} or a width outside 800..3200
ScaleOutOfSet == given.scale \notin {1, 2, 3}

WidthOutOfRange == given.width < 800 \/ given.width > 3200

\* the arguments as given, with 2 for an out-of-set scale and 1600 for an
\* out-of-range width
Substituted ==
    [given EXCEPT !.scale = IF ScaleOutOfSet THEN 2 ELSE @,
                  !.width = IF WidthOutOfRange THEN 1600 ELSE @]

\* C14: a call given a scale outside {1, 2, 3} or a width outside 800..3200
\* is not rejected by validation; it goes on with the arguments of the same
\* call made with scale 2 (width 1600), and for png and pdf the renderer's
\* command line carries the substituted values
C14_OutOfRangeSizesAreSubstituted ==
    ((pc[1] # "idle" \/ Ended(1)) /\ (ScaleOutOfSet \/ WidthOutOfRange))
        => /\ Kind(response[1]) # "ValidationFailure"
           /\ args[1] = Normalise(Substituted)
           /\ ScaleOutOfSet => args[1].scale = 2
           /\ WidthOutOfRange => args[1].width = 1600
           /\ (pc[1] = "run" /\ args[1].output_format \in {"png", "pdf"})
                 => /\ ScaleOutOfSet => HasFlag(Cmd(args[1]), "-s", <<"2">>)
                    /\ WidthOutOfRange
                          => HasFlag(Cmd(args[1]), "-w", <<"1", "6", "0", "0">>)

\* the renderer is about to run for a pdf given scale 9 and width 100
C14_Witness ==
    /\ pc[1] = "run"
    /\ given.scale = 9
    /\ given.width = 100
    /\ args[1].output_format = "pdf"
    /\ HasFlag(Cmd(args[1]), "-s", <<"2">>)
    /\ HasFlag(Cmd(args[1]), "-w", <<"1", "6", "0", "0">>)

\* the command line has the flag somewhere
Carries(cmd, flag) == \E i \in 1..Len(cmd) : cmd[i] = <<flag>>

\* C15: the command line the renderer is started with carries the scale flag
\* and the width flag exactly when the format is png or pdf (for svg it
\* carries neither); it always carries the input path, the output path, the
\* theme, the background and the sandbox configuration
C15_SizeFlagsOnlyForRaster ==
    \A p \in Procs :
        pc[p] = "run" =>
            LET cmd == Cmd(args[p])
                raster == args[p].output_format \in {"png", "pdf"}
            IN /\ Carries(cmd, "-s") <=> raster
               /\ Carries(cmd, "-w") <=> raster
               /\ raster => /\ HasFlag(cmd, "-s", Str(args[p].scale))
                            /\ HasFlag(cmd, "-w", Str(args[p].width))
               /\ HasFlag(cmd, "-i", input_file(Hash(p)))
               /\ HasFlag(cmd, "-o", output_file(args[p]))
               /\ HasFlag(cmd, "-t", <<args[p].theme>>)
               /\ HasFlag(cmd, "-b", <<args[p].background>>)
               /\ HasFlag(cmd, "-p", <<"/tmp/puppeteer-config.json">>)

\* the renderer is about to run for an svg whose caller gave a scale and a
\* width: the command line has neither flag
C15_Witness ==
    /\ pc[1] = "run"
    /\ args[1].output_format = "svg"
    /\ given.scale = 4
    /\ args[1].theme = "forest"
    /\ ~Carries(Cmd(args[1]), "-s")
    /\ ~Carries(Cmd(args[1]), "-w")

\* the categories in the order of the claim, each with the spellings of its
\* keyword that differ in case only, and its advisory
Categories ==
    << [keyword |-> {"syntax error", "Syntax error", "SYNTAX ERROR"},
        advisory |-> "Syntax error detected. Check for: missing semicolons, incorrect arrow syntax (use --> or ---), mismatched brackets."],
       [keyword |-> {"parse error", "Parse error", "Parse Error"},
        advisory |-> "Parse error. Verify diagram type declaration (graph TD, sequenceDiagram, etc.) and node connections."],
       [keyword |-> {"unexpected", "Unexpected", "UNEXPECTED"},
        advisory |-> "Unexpected token found. Check for typos in keywords or special characters."],
       [keyword |-> {"timeout", "Timeout", "TimeOut"},
        advisory |-> "Rendering timed out. Diagram might be too complex - try simplifying."] >>

GenericAdvisory == "Check Mermaid syntax at: https://mermaid.js.org/syntax/"

\* the categories whose keyword the message holds, in any case
Matching(msg) ==
    { k \in 1..Len(Categories) : \E i \in 1..Len(msg) : msg[i] \in Categories[k].keyword }

\* the advisory of the first matching category, the generic one when none matches
FirstMatch(msg) ==
    IF Matching(msg) = {} THEN GenericAdvisory
    ELSE Categories[CHOOSE k \in Matching(msg) : \A j \in Matching(msg) : k <= j].advisory

\* C16: parse_mermaid_error returns the advisory of the first category, in
\* the order syntax error, parse error, unexpected, timeout, whose keyword
\* the message holds in any case, and the generic advisory when it holds
\* none; the result is always one of the five advisories
C16_FirstMatchingCategory ==
    returned # NoAdvice
        => /\ returned = FirstMatch(given)
           /\ returned \in {Categories[k].advisory : k \in 1..Len(Categories)}
                              \cup {GenericAdvisory}

\* a message that holds 'Parse Error' before 'SYNTAX ERROR' got the
\* advisory of the syntax category
C16_Witness ==
    /\ given = <<"Parse Error", "SYNTAX ERROR">>
    /\ returned = Categories[1].advisory

\* the total of the opening, and of the closing, brackets of a source
Opening(code) == Cardinality({ i \in 1..Len(code) : code[i] \in {"[", "(", "{"} })

Closing(code) == Cardinality({ i \in 1..Len(code) : code[i] \in {"]", ")", "}"} })

\* the errors and the warnings of a result, empty when the key is absent
ErrorsOf(r) == IF "errors" \in DOMAIN r THEN r.errors ELSE <<>>

WarningsOf(r) == IF "warnings" \in DOMAIN r THEN r.warnings ELSE <<>>

\* C17: validate_mermaid_syntax answers valid = true exactly when it lists
\* no error, that is when the source is not empty, its diagram type is
\* detected and it has as many opening as closing brackets; unequal totals
\* are reported with both totals; the warnings have no part in valid
C17_ValidIffNoErrors ==
    returned # NoResponse
        => /\ returned.valid <=> ErrorsOf(returned) = <<>>
           /\ returned.valid <=> (/\ given # <<>>
                                  /\ detect_diagram_type(given) # ""
                                  /\ Opening(given) = Closing(given))
           /\ Opening(given) # Closing(given)
                 => \E i \in 1..Len(ErrorsOf(returned)) :
                        ErrorsOf(returned)[i] =
                            Fmt("Mismatched brackets: {} open, {} closed",
                                <<Opening(given), Closing(given)>>, <<>>)

\* a one-line flowchart without connections is valid and has both warnings
C17_Witness ==
    /\ returned # NoResponse
    /\ returned.valid
    /\ Len(WarningsOf(returned)) = 2
    /\ Opening(given) = 1

\* C18: every record of the ledger holds a count from 1 to max_attempts,
\* whatever the interleaving of the calls
C18_CountWithinBudget ==
    \A h \in DOMAIN attempt_tracker :
        1 <= attempt_tracker[h] /\ attempt_tracker[h] <= max_attempts

\* two calls run at the same time while the record of one source is at
\* max_attempts and the record of another source is below it
C18_Witness ==
    /\ \A p \in Procs : pc[p] # "idle"
    /\ \E h \in DOMAIN attempt_tracker : attempt_tracker[h] = max_attempts
    /\ \E h \in DOMAIN attempt_tracker : attempt_tracker[h] = 1
    /\ \E p \in Procs : pc[p] = "exhausted"

\* worker p takes a step of its call
Acts(p) ==
    \/ pc'[p] # pc[p]
    \/ response'[p] # response[p]
    \/ args'[p] # args[p]
    \/ attempts'[p] # attempts[p]

\* C19: a call that returns the budget-exhausted error does no render work.
\* Such a call takes three steps: it starts (lines 35-96), it reads the count
\* and finds the budget used up (lines 99-100), it returns (lines 101-108).
\* None of them writes or removes a scratch file, starts the renderer or
\* creates an artifact; the first two leave the ledger as it is, the last
\* removes the record of the call's own code_hash and nothing else
C19_ExhaustedCallRendersNothing ==
    [][\A p \in Procs :
          /\ (pc[p] = "idle" /\ pc'[p] = "check")
                => /\ tmp' = tmp /\ artifacts' = artifacts
                   /\ attempt_tracker' = attempt_tracker
          /\ (pc[p] = "check" /\ pc'[p] = "exhausted")
                => /\ tmp' = tmp /\ artifacts' = artifacts
                   /\ attempt_tracker' = attempt_tracker
          /\ (Acts(p) /\ Kind(response'[p]) = "BudgetExhausted")
                => /\ pc[p] = "exhausted"
                   /\ pc'[p] = "idle"
                   /\ tmp' = tmp /\ artifacts' = artifacts
                   /\ DOMAIN attempt_tracker' = DOMAIN attempt_tracker \ {Hash(p)}
                   /\ \A h \in DOMAIN attempt_tracker' :
                          attempt_tracker'[h] = attempt_tracker[h]
      ]_vars

\* a call has returned the budget-exhausted error while the other worker is
\* in the middle of a call on another source, whose record is still there
C19_Witness ==
    \E p \in Procs, q \in Procs :
        /\ Ended(p) /\ Kind(response[p]) = "BudgetExhausted"
        /\ Hash(p) \notin DOMAIN attempt_tracker
        /\ pc[q] = "run"
        /\ Hash(q) # Hash(p)
        /\ Hash(q) \in DOMAIN attempt_tracker

\* the record of code_hash h is the same before and after the step
SameRecord(h) ==
    /\ h \in DOMAIN attempt_tracker' <=> h \in DOMAIN attempt_tracker
    /\ h \in DOMAIN attempt_tracker => attempt_tracker'[h] = attempt_tracker[h]

\* the source only the second worker calls with, and its code_hash
OtherCode == <<"b">>

\* C20: a step of a call leaves the record of every code_hash other than the
\* call's own as it is: it does not create, change or remove it, on any
\* path.  So a call on a source no other running call shares reports, when
\* it fails, the attempt number it reserved itself
C20_OtherRecordsUntouched ==
    /\ [][\A p \in Procs :
             Acts(p) =>
                 \A h \in (DOMAIN attempt_tracker \cup DOMAIN attempt_tracker')
                             \ {code_hash(args'[p].mermaid_code)} :
                     SameRecord(h)
         ]_vars
    /\ [](\A p \in Procs :
             (/\ Ended(p)
              /\ args[p].mermaid_code = OtherCode
              /\ Kind(response[p]) \in {"RenderFailure", "Timeout"})
                 => response[p].attempt = attempts[p] + 1)

\* the second worker's call on its own source has failed at attempt 2 while
\* the first worker is in a call on another source whose record is there
C20_Witness ==
    /\ Ended(2)
    /\ args[2].mermaid_code = OtherCode
    /\ Kind(response[2]) = "RenderFailure"
    /\ response[2].attempt = 2
    /\ pc[1] = "run"
    /\ Hash(1) # Hash(2)
    /\ Hash(1) \in DOMAIN attempt_tracker

=============================================================================
